---- MODULE Spec2Model ----
(***************************************************************************)
(* A model of the JSON library pgegh/json: the tokenizer                   *)
(* (src/parser/tokenizer.rs), the number recognizer                        *)
(* (src/data_structures/j_number.rs), the recursive-descent value parser   *)
(* (src/parser/parser.rs) and the compact serializer.                      *)
(*                                                                         *)
(* A text is a sequence of Unicode code points (naturals): the code works  *)
(* on `char`s and compares them through `c as u32`.  A Result is a record  *)
(* with kind "Ok", "Err" or "Panic"; "Panic" is a call that aborts (an     *)
(* `unwrap()` on an Err) instead of returning.  An error message is kept   *)
(* as the name of its format string (err) and the values substituted into  *)
(* it (arg, a sequence of naturals: characters, token texts, indices).     *)
(***************************************************************************)
EXTENDS Integers, Sequences, FiniteSets

VARIABLES json_string, parsed, order, serialized, reparsed, s, number, rendered, pc,
          source_text, scanned, padded, padded_scanned, cursor, emitted, token_cursor, tree,
          j_object, old_object, call, returned, calls,
          raw, j_string, wire, wire_tokens,
          left_text, right_text, left, right, equal

tokenizer_vars == <<source_text, scanned, padded, padded_scanned,
                    cursor, emitted, token_cursor, tree>>

object_vars == <<j_object, old_object, call, returned, calls>>

string_vars == <<raw, j_string, wire, wire_tokens>>

equality_vars == <<left_text, right_text, left, right, equal>>

api_vars == <<object_vars, string_vars, equality_vars>>

vars == <<json_string, parsed, order, serialized, reparsed, s, number, rendered, pc,
          tokenizer_vars, api_vars>>

(***************************************************************************)
(* Code points the code names.                                             *)
(***************************************************************************)
Tab == 9
LineFeed == 10
CarriageReturn == 13
Space == 32
Backspace == 8
VerticalTab == 11
FormFeed == 12
Quote == 34
Plus == 43
Comma == 44
Minus == 45
Point == 46
Slash == 47
Digit0 == 48
Digit1 == 49
Digit2 == 50
Digit9 == 57
Colon == 58
AfterDigit9 == 58
UpperE == 69
SquareOpen == 91
Backslash == 92
SquareClose == 93
LetterA == 97
LetterB == 98
LetterE == 101
LetterF == 102
LetterL == 108
LetterN == 110
LetterR == 114
LetterS == 115
LetterT == 116
LetterU == 117
CurlyOpen == 123
CurlyClose == 125
NoSymbol == 32

(***************************************************************************)
(* Results.                                                                *)
(***************************************************************************)
Ok(v) == [kind |-> "Ok", val |-> v]

Err(e, a) == [kind |-> "Err", err |-> e, arg |-> a]

Panic(e) == [kind |-> "Panic", err |-> e]

IsOk(r) == r.kind = "Ok"

IsErr(r) == r.kind = "Err"

IsPanic(r) == r.kind = "Panic"

(***************************************************************************)
(* Tokens (enum Token) and their Display text.                             *)
(***************************************************************************)
Token(t, text) == [t |-> t, s |-> text]

TokString(text) == Token("String", text)

TokNumber(text) == Token("Number", text)

TokCurlyBracketOpen == Token("CurlyBracketOpen", <<>>)

TokCurlyBracketClose == Token("CurlyBracketClose", <<>>)

TokSquareBracketOpen == Token("SquareBracketOpen", <<>>)

TokSquareBracketClose == Token("SquareBracketClose", <<>>)

TokColon == Token("Colon", <<>>)

TokComma == Token("Comma", <<>>)

TokNull == Token("Null", <<>>)

TokTrue == Token("True", <<>>)

TokFalse == Token("False", <<>>)

Token_fmt(tok) ==
    CASE tok.t = "String" -> tok.s
      [] tok.t = "Number" -> tok.s
      [] tok.t = "True" -> <<LetterT, LetterR, LetterU, LetterE>>
      [] tok.t = "False" -> <<LetterF, LetterA, LetterL, LetterS, LetterE>>
      [] tok.t = "Null" -> <<LetterN, LetterU, LetterL, LetterL>>
      [] tok.t = "Comma" -> <<Comma>>
      [] tok.t = "Colon" -> <<Colon>>
      [] tok.t = "SquareBracketOpen" -> <<SquareOpen>>
      [] tok.t = "SquareBracketClose" -> <<SquareClose>>
      [] tok.t = "CurlyBracketOpen" -> <<CurlyOpen>>
      [] tok.t = "CurlyBracketClose" -> <<CurlyClose>>

(***************************************************************************)
(* The tokenizer.  `chars` is the text and the 1-based index of the next   *)
(* character `chars.next()` yields; a scanner returns the token(s) and the *)
(* index at which the caller goes on.                                      *)
(***************************************************************************)
IsWhitespace(c) == c = Space \/ c = LineFeed \/ c = CarriageReturn \/ c = Tab

IsDigit(c) == c >= Digit0 /\ c <= Digit9

Scanned(toks, next) == [kind |-> "Ok", toks |-> toks, next |-> next]

\* get_true / get_false / get_null: the characters after the first one must
\* spell `rest`; the error carries the prefix matched so far and the
\* deviating character, if there is one.
RECURSIVE get_keyword(_, _, _, _, _)
get_keyword(chars, i, matched, rest, tok) ==
    IF rest = <<>> THEN Scanned(<<tok>>, i)
    ELSE IF i > Len(chars) THEN Err("Invalid token", matched)
    ELSE IF chars[i] = Head(rest)
         THEN get_keyword(chars, i + 1, Append(matched, chars[i]), Tail(rest), tok)
         ELSE Err("Invalid token", Append(matched, chars[i]))

\* A keyword scan whose error leaves out the first character of the keyword.
get_true_without_first(chars, i) ==
    get_keyword(chars, i, <<>>, <<LetterR, LetterU, LetterE>>, TokTrue)

get_true(chars, i) ==
    get_keyword(chars, i, <<LetterT>>, <<LetterR, LetterU, LetterE>>, TokTrue)

get_false(chars, i) ==
    get_keyword(chars, i, <<LetterF>>, <<LetterA, LetterL, LetterS, LetterE>>, TokFalse)

get_null(chars, i) ==
    get_keyword(chars, i, <<LetterN>>, <<LetterU, LetterL, LetterL>>, TokNull)

RECURSIVE get_number_loop(_, _, _)
get_number_loop(chars, i, string) ==
    IF i > Len(chars) THEN Scanned(<<TokNumber(string)>>, i)
    ELSE LET c == chars[i] IN
         IF IsDigit(c) \/ c \in {Point, Minus, Plus, LetterE, UpperE}
         THEN get_number_loop(chars, i + 1, Append(string, c))
         ELSE IF IsWhitespace(c) THEN Scanned(<<TokNumber(string)>>, i + 1)
         ELSE IF c = Comma THEN Scanned(<<TokNumber(string), TokComma>>, i + 1)
         ELSE IF c = SquareClose
              THEN Scanned(<<TokNumber(string), TokSquareBracketClose>>, i + 1)
         ELSE IF c = CurlyClose
              THEN Scanned(<<TokNumber(string), TokCurlyBracketClose>>, i + 1)
         ELSE Err("Invalid char", <<c>>)

\* A numeric scan that pushes the delimiter it stops at and leaves it in the
\* iterator, so that the loop of tokenize reads it a second time.
get_number_peeking(chars, i, first_char) ==
    LET r == get_number_loop(chars, i, <<first_char>>) IN
    IF IsOk(r) /\ Len(r.toks) = 2 THEN Scanned(r.toks, r.next - 1) ELSE r

\* A numeric scan that loses the delimiter it stops at.
get_number_losing_delimiter(chars, i, first_char) ==
    LET r == get_number_loop(chars, i, <<first_char>>) IN
    IF IsOk(r) THEN Scanned(<<r.toks[1]>>, r.next) ELSE r

get_number(chars, i, first_char) == get_number_loop(chars, i, <<first_char>>)

RECURSIVE get_string_loop(_, _, _, _)
get_string_loop(chars, i, string, last_char) ==
    IF i > Len(chars) THEN Err("Invalid string token at the end of file!", <<>>)
    ELSE LET c == chars[i] IN
         IF c = Quote /\ last_char # Backslash
         THEN Scanned(<<TokString(string)>>, i + 1)
         ELSE get_string_loop(chars, i + 1, Append(string, c), c)

\* A scan that gives the characters read so far when the input ends inside
\* the literal.
get_string_partial(chars, i) ==
    LET r == get_string_loop(chars, i, <<>>, Quote) IN
    IF IsErr(r) THEN Scanned(<<TokString(SubSeq(chars, i, Len(chars)))>>, Len(chars) + 1)
    ELSE r

\* A scan that decodes: the escape backslashes are left out of the token's text.
get_string_decoding(chars, i) ==
    LET r == get_string_loop(chars, i, <<>>, Quote)
        kept(c) == c # Backslash
    IN  IF IsOk(r) THEN Scanned(<<TokString(SelectSeq(r.toks[1].s, kept))>>, r.next)
        ELSE r

get_string(chars, i) == get_string_loop(chars, i, <<>>, Quote)

\* One iteration of the loop of tokenize, for the character chars.next()
\* yields at index i: the token(s) pushed and the index of the next one.
next_token(chars, i) ==
    LET c == chars[i] IN
    CASE c = Quote -> get_string(chars, i + 1)
      [] IsDigit(c) \/ c = Minus -> get_number(chars, i + 1, c)
      [] c = LetterT -> get_true(chars, i + 1)
      [] c = LetterF -> get_false(chars, i + 1)
      [] c = LetterN -> get_null(chars, i + 1)
      [] c = CurlyOpen -> Scanned(<<TokCurlyBracketOpen>>, i + 1)
      [] c = CurlyClose -> Scanned(<<TokCurlyBracketClose>>, i + 1)
      [] c = SquareOpen -> Scanned(<<TokSquareBracketOpen>>, i + 1)
      [] c = SquareClose -> Scanned(<<TokSquareBracketClose>>, i + 1)
      [] c = Colon -> Scanned(<<TokColon>>, i + 1)
      [] c = Comma -> Scanned(<<TokComma>>, i + 1)
      [] IsWhitespace(c) -> Scanned(<<>>, i + 1)
      [] OTHER -> Err("Invalid char", <<c>>)

RECURSIVE tokenize_loop(_, _, _)
tokenize_loop(chars, i, tokens) ==
    IF i > Len(chars) THEN Ok(tokens)
    ELSE LET sub == next_token(chars, i) IN
         IF IsOk(sub) THEN tokenize_loop(chars, sub.next, tokens \o sub.toks)
         ELSE sub

\* A tokenizer that does not know the carriage return as whitespace.
tokenize_without_cr(text) ==
    IF \E n \in 1..Len(text) : text[n] = CarriageReturn
    THEN Err("Invalid char", <<CarriageReturn>>)
    ELSE tokenize_loop(text, 1, <<>>)

\* A tokenizer that passes over the letter a wherever it stands.
tokenize_skipping(text) ==
    LET kept(c) == c # LetterA IN tokenize_loop(SelectSeq(text, kept), 1, <<>>)

tokenize(text) == tokenize_loop(text, 1, <<>>)

(***************************************************************************)
(* The derived f64 value.  A finite value is kept exactly, as the decimal  *)
(* m * 10^e with m not divisible by 10 (m = 0 and e = 0 for zero), so the  *)
(* model does not round; the infinities and NaN that `powi` and the        *)
(* multiplication produce for a decimal exponent beyond the f64 range are  *)
(* modelled.                                                               *)
(***************************************************************************)
F64MaxExp10 == 308

F64MaxLead7 == 1797693

F64(cls, neg, m, e) == [cls |-> cls, neg |-> neg, m |-> m, e |-> e]

RECURSIVE Pow10(_)
Pow10(n) == IF n = 0 THEN 1 ELSE 10 * Pow10(n - 1)

RECURSIVE NumDigits(_)
NumDigits(m) == IF m < 10 THEN 1 ELSE 1 + NumDigits(m \div 10)

RECURSIVE Normalize(_, _, _)
Normalize(neg, m, e) ==
    IF m = 0 THEN F64("fin", neg, 0, 0)
    ELSE IF m % 10 = 0 THEN Normalize(neg, m \div 10, e + 1)
    ELSE F64("fin", neg, m, e)

\* m * 10^e is beyond f64::MAX (1.7976931348623157e308).
Overflows(m, e) ==
    LET d == NumDigits(m)
        lead7 == IF d <= 7 THEN m * Pow10(7 - d) ELSE m \div Pow10(d - 7)
    IN  m # 0 /\ (d - 1 + e > F64MaxExp10
                  \/ (d - 1 + e = F64MaxExp10 /\ lead7 > F64MaxLead7))

\* x * 10.0_f64.powi(n), powi computed as in compiler-rt: 10^|n| by repeated
\* multiplication, then the reciprocal for a negative n.
MulPowi(x, n) ==
    LET a == IF n < 0 THEN 0 - n ELSE n IN
    IF x.cls # "fin" THEN x
    ELSE IF a > F64MaxExp10
         THEN IF n < 0 THEN F64("fin", x.neg, 0, 0)
              ELSE IF x.m = 0 THEN F64("nan", FALSE, 0, 0)
              ELSE F64("inf", x.neg, 0, 0)
    ELSE IF Overflows(x.m, x.e + n) THEN F64("inf", x.neg, 0, 0)
    ELSE Normalize(x.neg, x.m, x.e + n)

F64_neg(x) == IF x.cls = "nan" THEN x ELSE [x EXCEPT !.neg = ~x.neg]

\* f64 == : NaN equals nothing, -0.0 equals 0.0.
F64_eq(x, y) ==
    /\ x.cls # "nan" /\ y.cls # "nan"
    /\ x.cls = y.cls
    /\ \/ x.cls = "fin" /\ x.m = 0 /\ y.m = 0
       \/ x.cls = "fin" /\ x.neg = y.neg /\ x.m = y.m /\ x.e = y.e
       \/ x.cls = "inf" /\ x.neg = y.neg

(***************************************************************************)
(* str::parse on the digit strings the recognizer hands over.              *)
(***************************************************************************)
I32Max == <<2, 1, 4, 7, 4, 8, 3, 6, 4, 7>>

RECURSIVE DigitsValue(_)
DigitsValue(str) ==
    IF str = <<>> THEN 0
    ELSE 10 * DigitsValue(SubSeq(str, 1, Len(str) - 1)) + (str[Len(str)] - Digit0)

RECURSIVE StripZeros(_)
StripZeros(str) ==
    IF str # <<>> /\ Head(str) = Digit0 THEN StripZeros(Tail(str)) ELSE str

RECURSIVE LexGreater(_, _)
LexGreater(a, b) ==
    IF a = <<>> THEN FALSE
    ELSE IF Head(a) # Head(b) THEN Head(a) > Head(b)
    ELSE LexGreater(Tail(a), Tail(b))

\* parse::<f64>() of a string of digits: Err on the empty string.
parse_f64(str) == IF str = <<>> THEN Err("ParseFloatError", <<>>) ELSE Ok(DigitsValue(str))

\* parse::<i32>() of a string of digits: Err on the empty string and on overflow.
parse_i32(str) ==
    LET d == StripZeros(str) IN
    IF str = <<>> THEN Err("ParseIntError", <<>>)
    ELSE IF Len(d) > Len(I32Max)
            \/ (Len(d) = Len(I32Max) /\ LexGreater([k \in 1..Len(d) |-> d[k] - Digit0], I32Max))
         THEN Err("ParseIntError", <<>>)
    ELSE Ok(DigitsValue(d))

(***************************************************************************)
(* The number recognizer: struct JNumber, JNumber::from_str, get_f64 and   *)
(* Display for JNumber.                                                    *)
(***************************************************************************)
SignNone == "None"

SignPositive == "Positive"

SignNegative == "Negative"

get_f64(sign, integer_part, fractional_part, e_sign, exponent_part) ==
    LET ip == parse_f64(integer_part)
        fp == parse_f64(fractional_part)
        ep == parse_i32(exponent_part)
    IN  IF ~IsOk(ip) THEN Panic("unwrap: integer_part.parse::<f64>()")
        ELSE IF ~IsOk(fp) THEN Panic("unwrap: fractional_part.parse::<f64>()")
        ELSE IF exponent_part # <<Digit0>> /\ ~IsOk(ep)
             THEN Panic("unwrap: exponent_part.parse::<i32>()")
        ELSE LET l == Len(fractional_part)
                 base == Normalize(FALSE, ip.val * Pow10(l) + fp.val, 0 - l)
                 scaled == IF exponent_part # <<Digit0>>
                           THEN IF e_sign = SignNegative
                                THEN MulPowi(base, 0 - ep.val)
                                ELSE MulPowi(base, ep.val)
                           ELSE base
             IN  Ok(IF sign = SignNegative THEN F64_neg(scaled) ELSE scaled)

\* The local variables of from_str before the first character.
from_str_init ==
    [sign |-> SignNone, next_is_point |-> FALSE, next_is_digit |-> FALSE,
     integer_part |-> <<Digit0>>, fractional_part |-> <<Digit0>>,
     exponent_part |-> <<Digit0>>, e_sign |-> SignNone, e_symbol |-> NoSymbol,
     temp_int |-> <<>>, point |-> FALSE]

\* One iteration of the loop over s.chars().enumerate(): i is 0-based.
from_str_char(st, i, c) ==
    IF i = 0 THEN
        IF c = Minus THEN Ok([st EXCEPT !.sign = SignNegative])
        ELSE IF c = Digit0 THEN Ok([st EXCEPT !.next_is_point = TRUE])
        ELSE IF c > Digit0 /\ c < AfterDigit9 THEN Ok([st EXCEPT !.temp_int = Append(@, c)])
        ELSE Err("Illegal symbol {} at index {}", <<c, i>>)
    ELSE IF st.next_is_point THEN
        IF c # Point THEN Err("Illegal input! Point was expected at index {}", <<i>>)
        ELSE Ok([st EXCEPT !.next_is_point = FALSE, !.point = TRUE, !.next_is_digit = TRUE])
    ELSE IF st.next_is_digit THEN
        IF c >= Digit0 /\ c < AfterDigit9
        THEN Ok([st EXCEPT !.temp_int = Append(@, c), !.next_is_digit = FALSE])
        ELSE Err("Digit was expected at index {}", <<i>>)
    ELSE IF c >= Digit0 /\ c < AfterDigit9 THEN Ok([st EXCEPT !.temp_int = Append(@, c)])
    ELSE IF c = Point THEN
        IF st.point \/ st.e_symbol # NoSymbol THEN Err("An illegal point at index {}", <<i>>)
        ELSE Ok([st EXCEPT !.integer_part = st.temp_int, !.temp_int = <<>>, !.point = TRUE])
    ELSE IF c = LetterE \/ c = UpperE THEN
        IF st.e_symbol = NoSymbol
        THEN IF st.point
             THEN Ok([st EXCEPT !.e_symbol = c, !.fractional_part = st.temp_int,
                                !.temp_int = <<>>])
             ELSE Ok([st EXCEPT !.e_symbol = c, !.integer_part = st.temp_int,
                                !.temp_int = <<>>])
        ELSE Err("Illegal symbol {} at index {}", <<c, i>>)
    ELSE IF c = Plus \/ c = Minus THEN
        IF st.e_symbol # NoSymbol /\ Len(st.temp_int) = 0 /\ st.e_sign = SignNone
        THEN Ok([st EXCEPT !.e_sign = IF c = Plus THEN SignPositive ELSE SignNegative])
        ELSE Err("An illegal sign at index {}", <<i>>)
    ELSE Err("Illegal first symbol {} at index {}", <<c, i>>)

\* The code after the loop: the buffer goes to the part that is open, the
\* value is derived and the JNumber is built.
from_str_finish(st) ==
    LET exponent_part == IF Len(st.temp_int) > 0 /\ st.e_symbol # NoSymbol
                         THEN st.temp_int ELSE st.exponent_part
        fractional_part == IF Len(st.temp_int) > 0 /\ st.e_symbol = NoSymbol /\ st.point
                           THEN st.temp_int ELSE st.fractional_part
        integer_part == IF Len(st.temp_int) > 0 /\ st.e_symbol = NoSymbol /\ ~st.point
                        THEN st.temp_int ELSE st.integer_part
        f64_value == get_f64(st.sign, integer_part, fractional_part, st.e_sign, exponent_part)
    IN  IF IsPanic(f64_value) THEN f64_value
        ELSE Ok([sign |-> st.sign, integer_part |-> integer_part,
                 fractional_part |-> fractional_part, exponent |-> exponent_part,
                 e_sign |-> st.e_sign, e_symbol |-> st.e_symbol,
                 f64_value |-> f64_value.val])

RECURSIVE from_str_loop(_, _, _)
from_str_loop(str, i, st) ==
    IF i >= Len(str) THEN from_str_finish(st)
    ELSE LET r == from_str_char(st, i, str[i + 1]) IN
         IF IsOk(r) THEN from_str_loop(str, i + 1, r.val) ELSE r

\* A recognizer that takes a leading '0' as any other digit of the integer part.
from_str_zero_as_digit(str) ==
    IF Len(str) > 0 /\ str[1] = Digit0
    THEN from_str_loop(str, 1, [from_str_init EXCEPT !.temp_int = <<Digit0>>])
    ELSE from_str_loop(str, 0, from_str_init)

from_str(str) == from_str_loop(str, 0, from_str_init)

\* impl Display for JNumber.
JNumber_fmt(n) ==
    (IF n.sign = SignNegative THEN <<Minus>> ELSE <<>>)
    \o n.integer_part
    \o (IF n.fractional_part # <<Digit0>> THEN <<Point>> ELSE <<>>)
    \o (IF n.fractional_part # <<Digit0>> THEN n.fractional_part ELSE <<>>)
    \o (IF n.exponent # <<Digit0>> THEN <<n.e_symbol>> ELSE <<>>)
    \o (IF n.e_sign = SignNone THEN <<>>
        ELSE IF n.e_sign = SignPositive THEN <<Plus>> ELSE <<Minus>>)
    \o (IF n.exponent # <<Digit0>> THEN n.exponent ELSE <<>>)

\* PartialEq for JNumber.
\* An equality of Numbers by their spelling.
JNumber_eq_spelling(n1, n2) ==
    /\ n1.sign = n2.sign
    /\ n1.integer_part = n2.integer_part
    /\ n1.fractional_part = n2.fractional_part
    /\ n1.exponent = n2.exponent

JNumber_eq(n1, n2) == F64_eq(n1.f64_value, n2.f64_value)

\* JNumber::get_f64_value
get_f64_value(n) == n.f64_value

(***************************************************************************)
(* JString: a validated string; struct JObject: a HashMap from key text to *)
(* value plus the size counter; enum JValue.                               *)
(***************************************************************************)
RECURSIVE JString_new_loop(_, _)
JString_new_loop(str, i) ==
    IF i > Len(str) THEN Ok([value |-> str])
    ELSE LET c == str[i] IN
         IF c < Backspace \/ c = VerticalTab \/ (c > CarriageReturn /\ c < Space)
         THEN Err("The string contains an illegal char ({:#06X})", <<c>>)
         ELSE JString_new_loop(str, i + 1)

JString_new(str) == JString_new_loop(str, 1)

\* impl Display for JString
JString_fmt(js) == js.value

EmptyMap == [k \in {} |-> 0]

JObject_new == [value |-> EmptyMap, size |-> 0]

JObject_len(obj) == obj.size

\* A map insert that keeps the value a key already has.
MapInsert_keeping(m, k, v) ==
    [x \in DOMAIN m \cup {k} |-> IF x \in DOMAIN m THEN m[x] ELSE v]

MapInsert(m, k, v) == [x \in DOMAIN m \cup {k} |-> IF x = k THEN v ELSE m[x]]

\* An insert that counts every call, also one that replaces a value.
JObject_insert_counting(obj, k, v) ==
    [obj |-> [value |-> MapInsert(obj.value, k, v), size |-> obj.size + 1],
     some |-> k \in DOMAIN obj.value,
     old |-> IF k \in DOMAIN obj.value THEN obj.value[k] ELSE 0]

\* JObject::insert: the object after the call and the returned Option.
JObject_insert(obj, k, v) ==
    IF k \in DOMAIN obj.value
    THEN [obj |-> [obj EXCEPT !.value = MapInsert(obj.value, k, v)],
          some |-> TRUE, old |-> obj.value[k]]
    ELSE [obj |-> [value |-> MapInsert(obj.value, k, v), size |-> obj.size + 1],
          some |-> FALSE, old |-> 0]

MapRemove(m, k) == [x \in DOMAIN m \ {k} |-> m[x]]

\* JObject::remove: the object after the call and the returned Option.
JObject_remove(obj, k) ==
    IF k \in DOMAIN obj.value
    THEN [obj |-> [value |-> MapRemove(obj.value, k), size |-> obj.size - 1],
          some |-> TRUE, old |-> obj.value[k]]
    ELSE [obj |-> obj, some |-> FALSE, old |-> 0]

JNull == [type |-> "Null"]

JBoolean(b) == [type |-> "Boolean", b |-> b]

JNumberV(n) == [type |-> "Number", n |-> n]

JStringV(js) == [type |-> "String", s |-> js]

JArray(vec) == [type |-> "Array", a |-> vec]

JObjectV(obj) == [type |-> "Object", o |-> obj]

\* PartialEq for JValue, JObject (HashMap ==), Vec<JValue> and JString.
RECURSIVE JValue_eq(_, _)
JValue_eq(v1, v2) ==
    /\ v1.type = v2.type
    /\ CASE v1.type = "Object" ->
              /\ DOMAIN v1.o.value = DOMAIN v2.o.value
              /\ \A k \in DOMAIN v1.o.value : JValue_eq(v1.o.value[k], v2.o.value[k])
         [] v1.type = "Array" ->
              /\ Len(v1.a) = Len(v2.a)
              /\ \A i \in 1..Len(v1.a) : JValue_eq(v1.a[i], v2.a[i])
         [] v1.type = "String" -> v1.s.value = v2.s.value
         [] v1.type = "Number" -> JNumber_eq(v1.n, v2.n)
         [] v1.type = "Boolean" -> v1.b = v2.b
         [] v1.type = "Null" -> TRUE

(***************************************************************************)
(* The value parser.  `tokens_itr` is the token sequence and the 1-based   *)
(* index p of the token `tokens_itr.next()` yields; a function returns the *)
(* value and the index after the last token it consumed.                   *)
(***************************************************************************)
Parsed(v, next) == [kind |-> "Ok", val |-> v, next |-> next]

RECURSIVE get_jvalue(_, _)
RECURSIVE get_jarray_loop(_, _, _)
RECURSIVE get_jobject_loop(_, _, _)

get_jarray(tokens, p) == get_jarray_loop(tokens, p, <<>>)

get_jobject(tokens, p) == get_jobject_loop(tokens, p, JObject_new)

\* A String token becomes a String value, a Number token a Number value.
string_value(tok, next) ==
    LET r == JString_new(tok.s) IN
    IF IsOk(r) THEN Parsed(JStringV(r.val), next) ELSE r

\* A Number value whose failure is wrapped in a message of the parser.
number_value_wrapping(tok, next) ==
    LET r == from_str(tok.s) IN
    IF IsOk(r) THEN Parsed(JNumberV(r.val), next)
    ELSE Err("Invalid number {}", tok.s)

number_value(tok, next) ==
    LET r == from_str(tok.s) IN
    IF IsOk(r) THEN Parsed(JNumberV(r.val), next) ELSE r

get_jvalue(tokens, p) ==
    IF p > Len(tokens) THEN Err("No Token Found", <<>>)
    ELSE LET tok == tokens[p] IN
         CASE tok.t = "CurlyBracketOpen" -> get_jobject(tokens, p + 1)
           [] tok.t = "SquareBracketOpen" -> get_jarray(tokens, p + 1)
           [] tok.t = "Number" -> number_value(tok, p + 1)
           [] tok.t = "String" -> string_value(tok, p + 1)
           [] tok.t = "True" -> Parsed(JBoolean(TRUE), p + 1)
           [] tok.t = "False" -> Parsed(JBoolean(FALSE), p + 1)
           [] tok.t = "Null" -> Parsed(JNull, p + 1)
           [] OTHER -> Err("Invalid token '{}'", Token_fmt(tok))

\* The second match of the loop of get_jarray, after an element was pushed.
get_jarray_separator(tokens, p, vec) ==
    IF p > Len(tokens)
    THEN Err("Invalid JSON array! Missing a closing square bracket", <<>>)
    ELSE LET tok == tokens[p] IN
         CASE tok.t = "Comma" -> get_jarray_loop(tokens, p + 1, vec)
           [] tok.t = "SquareBracketClose" -> Parsed(JArray(vec), p + 1)
           [] OTHER -> Err("Invalid JSON array! Invalid token: {}", Token_fmt(tok))

get_jarray_loop(tokens, p, vec) ==
    IF p > Len(tokens)
    THEN Err("Invalid JSON array! Missing a closing square bracket", <<>>)
    ELSE LET tok == tokens[p]
             elem == CASE tok.t = "CurlyBracketOpen" -> get_jobject(tokens, p + 1)
                       [] tok.t = "SquareBracketOpen" -> get_jarray(tokens, p + 1)
                       [] tok.t = "String" -> string_value(tok, p + 1)
                       [] tok.t = "Number" -> number_value(tok, p + 1)
                       [] tok.t = "True" -> Parsed(JBoolean(TRUE), p + 1)
                       [] tok.t = "False" -> Parsed(JBoolean(FALSE), p + 1)
                       [] tok.t = "Null" -> Parsed(JNull, p + 1)
                       [] OTHER -> Err("Invalid JSON array! Invalid token: {}",
                                       Token_fmt(tok))
         IN  IF tok.t = "SquareBracketClose" THEN Parsed(JArray(vec), p + 1)
             ELSE IF ~IsOk(elem) THEN elem
             ELSE get_jarray_separator(tokens, elem.next, Append(vec, elem.val))

\* One iteration of the loop of get_jobject: key, colon, value, insert; the
\* loop then starts over with the token after the value.
get_jobject_loop(tokens, p, obj) ==
    IF p > Len(tokens)
    THEN Err("Invalid JSON object! Missing a closing curly bracket", <<>>)
    ELSE LET tok == tokens[p]
             key == JString_new(tok.s)
         IN
         IF tok.t = "CurlyBracketClose" THEN Parsed(JObjectV(obj), p + 1)
         ELSE IF tok.t # "String"
              THEN Err("Invalid JSON object! Invalid token:  {}", Token_fmt(tok))
         ELSE IF ~IsOk(key) THEN key
         ELSE IF p + 1 > Len(tokens)
              THEN Err("Invalid JSON object! Missing a colon", <<>>)
         ELSE IF tokens[p + 1].t # "Colon"
              THEN Err("Invalid JSON object! Invalid token: {} instead of \":\"",
                       Token_fmt(tokens[p + 1]))
         ELSE LET v == get_jvalue(tokens, p + 2) IN
              IF ~IsOk(v) THEN v
              ELSE LET ins == JObject_insert(obj, JString_fmt(key.val), v.val) IN
                   IF ins.some
                   THEN Err("Invalid JSON object: the key {} is not unique",
                            JString_fmt(key.val))
                   ELSE get_jobject_loop(tokens, v.next, ins.obj)

\* A parse that interleaves the two stages: when the scan fails, the value
\* parser still runs on the tokens of the longest prefix that scans, and its
\* error is returned in place of the tokenizer's.
parse_interleaved(text) ==
    LET tokens == tokenize(text)
        scanning == {p \in 0..Len(text) : IsOk(tokenize(SubSeq(text, 1, p)))}
        longest == CHOOSE p \in scanning : \A q \in scanning : q <= p
    IN  IF ~IsOk(tokens)
        THEN LET early == get_jvalue(tokenize(SubSeq(text, 1, longest)).val, 1) IN
             IF IsErr(early) THEN early ELSE tokens
        ELSE LET r == get_jvalue(tokens.val, 1) IN
             IF IsOk(r) THEN Ok(r.val) ELSE r

\* parse: the tokenizer's error, or what get_jvalue returns for the first token.
parse(text) ==
    LET tokens == tokenize(text) IN
    IF ~IsOk(tokens) THEN tokens
    ELSE LET r == get_jvalue(tokens.val, 1) IN
         IF IsOk(r) THEN Ok(r.val) ELSE r

(***************************************************************************)
(* The compact serializer.  A HashMap iterates in an unspecified order:    *)
(* `ord` lists the keys of the tree in the order in which every object of  *)
(* the tree yields those it holds.                                         *)
(***************************************************************************)
escape(c) ==
    IF c = LineFeed THEN <<Backslash, LetterN>>
    ELSE IF c = Tab THEN <<Backslash, LetterT>>
    ELSE IF c = Quote THEN <<Backslash, Quote>>
    ELSE IF c = Backslash THEN <<Backslash, Backslash>>
    ELSE IF c = Slash THEN <<Backslash, Slash>>
    ELSE IF c = Backspace THEN <<Backslash, LetterB>>
    ELSE IF c = FormFeed THEN <<Backslash, LetterF>>
    ELSE IF c = CarriageReturn THEN <<Backslash, LetterR>>
    ELSE <<c>>

RECURSIVE escape_all(_)
escape_all(str) == IF str = <<>> THEN <<>> ELSE escape(Head(str)) \o escape_all(Tail(str))

serialize_string(string) == <<Quote>> \o escape_all(string) \o <<Quote>>

JString_serialize(js) == <<Quote>> \o escape_all(js.value) \o <<Quote>>

JNumber_serialize(n) == JNumber_fmt(n)

RECURSIVE JValue_serialize(_, _)
RECURSIVE array_items(_, _, _)
RECURSIVE object_items(_, _, _, _)

\* The loop of array_to_string(array, true) from element i on.
array_items(array, i, ord) ==
    IF i > Len(array) THEN <<>>
    ELSE JValue_serialize(array[i], ord)
         \o (IF i - 1 < Len(array) - 1 THEN <<Comma>> ELSE <<>>)
         \o array_items(array, i + 1, ord)

\* An array text with a comma after the last element as well.
array_to_string_trailing(array, ord) ==
    <<SquareOpen>> \o array_items(array, 1, ord)
        \o (IF array = <<>> THEN <<>> ELSE <<Comma>>) \o <<SquareClose>>

array_to_string(array, ord) == <<SquareOpen>> \o array_items(array, 1, ord) \o <<SquareClose>>

\* The loop of JObject::serialize over the keys in iteration order, from the i-th on.
object_items(obj, keys, i, ord) ==
    IF i > Len(keys) THEN <<>>
    ELSE serialize_string(keys[i]) \o <<Colon>> \o JValue_serialize(obj.value[keys[i]], ord)
         \o (IF i - 1 < obj.size - 1 THEN <<Comma>> ELSE <<>>)
         \o object_items(obj, keys, i + 1, ord)

IterationOrder(obj, ord) == SelectSeq(ord, LAMBDA k : k \in DOMAIN obj.value)

JObject_serialize(obj, ord) ==
    <<CurlyOpen>> \o object_items(obj, IterationOrder(obj, ord), 1, ord) \o <<CurlyClose>>

JValue_serialize(v, ord) ==
    CASE v.type = "Object" -> JObject_serialize(v.o, ord)
      [] v.type = "Array" -> array_to_string(v.a, ord)
      [] v.type = "String" -> JString_serialize(v.s)
      [] v.type = "Number" -> JNumber_serialize(v.n)
      [] v.type = "Boolean" -> IF v.b THEN <<LetterT, LetterR, LetterU, LetterE>>
                               ELSE <<LetterF, LetterA, LetterL, LetterS, LetterE>>
      [] v.type = "Null" -> <<LetterN, LetterU, LetterL, LetterL>>

RECURSIVE AllKeys(_)
AllKeys(v) ==
    CASE v.type = "Object" ->
              DOMAIN v.o.value \cup UNION {AllKeys(v.o.value[k]) : k \in DOMAIN v.o.value}
      [] v.type = "Array" -> UNION {AllKeys(v.a[i]) : i \in 1..Len(v.a)}
      [] OTHER -> {}

Orders(keys) ==
    {f \in [1..Cardinality(keys) -> keys] : \A i, j \in DOMAIN f : i # j => f[i] # f[j]}

(***************************************************************************)
(* The inputs.  Documents: every text of at most MaxTextLen characters     *)
(* over TextAlphabet, and the arrays and objects of at most MaxElems       *)
(* elements built from ElementTexts, with and without the separating       *)
(* comma.  Numerals: every text of at most MaxNumLen characters over       *)
(* NumAlphabet, and the texts sign-integer-fraction-exponent built from    *)
(* small parts, well-formed or not.                                        *)
(***************************************************************************)
MaxTextLen == 3

MaxElems == 2

MaxNumLen == 4

Digit(d) == Digit0 + d

TextAlphabet ==
    {CurlyOpen, CurlyClose, SquareOpen, SquareClose, Colon, Comma, Space, Quote,
     Backslash, Slash, LetterA, Digit0, Digit1, Minus, Point, LetterE, Plus}

NumAlphabet == {Digit0, Digit1, Digit2, Point, Minus, Plus, LetterE, UpperE, LetterA}

RECURSIVE TextsUpTo(_, _)
TextsUpTo(alphabet, n) ==
    IF n = 0 THEN {<<>>}
    ELSE LET shorter == TextsUpTo(alphabet, n - 1) IN
         shorter \cup {Append(t, c) : t \in {x \in shorter : Len(x) = n - 1}, c \in alphabet}

Quoted(str) == <<Quote>> \o str \o <<Quote>>

LeafTexts ==
    {<<Digit1>>, <<Digit1, LetterE, Plus, Digit0>>, <<Digit2, Point, Digit(5)>>,
     <<LetterT, LetterR, LetterU, LetterE>>, <<LetterN, LetterU, LetterL, LetterL>>,
     Quoted(<<LetterA>>), Quoted(<<Backslash, LetterN>>)}

Keys == {<<LetterA>>, <<LetterB>>}

PairText(k, v) == Quoted(k) \o <<Colon>> \o v

SeparatorTexts == {<<Comma>>, <<Space>>, <<Comma, Space>>}

ElementTexts ==
    LeafTexts \cup {<<SquareOpen, SquareClose>>, <<CurlyOpen, CurlyClose>>,
                    <<SquareOpen, Digit1, SquareClose>>,
                    <<CurlyOpen>> \o Quoted(<<LetterA>>) \o <<Colon, Digit1, CurlyClose>>}

PairTexts == {PairText(k, v) : k \in Keys, v \in ElementTexts}

\* The texts of 1..n items, consecutive items joined by a separator.
RECURSIVE Joined(_, _)
Joined(items, n) ==
    IF n = 1 THEN items
    ELSE LET shorter == Joined(items, n - 1) IN
         shorter \cup {t \o sep \o i : t \in shorter, sep \in SeparatorTexts, i \in items}

ContainerTexts ==
    {<<SquareOpen>> \o t \o <<SquareClose>> : t \in Joined(ElementTexts, MaxElems)}
    \cup {<<CurlyOpen>> \o t \o <<CurlyClose>> : t \in Joined(PairTexts, MaxElems)}

\* Arrays and objects whose last item is followed by a comma.
TrailingCommaTexts ==
    {<<SquareOpen>> \o e \o <<Comma, SquareClose>> : e \in ElementTexts}
    \cup {<<CurlyOpen>> \o p \o <<Comma, CurlyClose>> : p \in PairTexts}

\* Arrays and objects of one or two items, cut off before their end.
TruncatedTexts ==
    LET opened ==
            {<<SquareOpen>> \o e : e \in ElementTexts}
            \cup {<<SquareOpen>> \o e \o sep \o f :
                     e \in ElementTexts, sep \in SeparatorTexts, f \in ElementTexts}
            \cup {<<CurlyOpen>> \o p : p \in PairTexts}
            \cup {<<CurlyOpen>> \o p \o sep \o q :
                     p \in PairTexts, sep \in SeparatorTexts, q \in PairTexts}
    IN  UNION {{SubSeq(t, 1, n) : n \in 1..Len(t)} : t \in opened}

\* Documents with a literal the number recognizer or the string validator
\* rejects, alone, in an array, as the value and as the key of a pair, with
\* and without tokens after it.
FailingLeaves ==
    {<<Digit0, Digit0>>, <<Digit1, Point, Point>>, Quoted(<<VerticalTab>>)}

ErrorTexts ==
    LET tails == {<<>>, <<Comma, CurlyClose>>, <<SquareClose>>}
                 \cup {<<Comma>> \o y \o <<SquareClose>> : y \in FailingLeaves}
        heads == {<<>>, <<SquareOpen>>, <<SquareOpen, Digit1, Comma>>,
                  <<SquareOpen, SquareOpen>>,
                  <<CurlyOpen>> \o Quoted(<<LetterA>>) \o <<Colon>>}
    IN  {h \o x \o t : h \in heads, x \in FailingLeaves, t \in tails}
        \cup {<<CurlyOpen>> \o Quoted(<<VerticalTab>>) \o <<Colon, Digit1, CurlyClose>>}

Documents ==
    TextsUpTo(TextAlphabet, MaxTextLen) \cup ContainerTexts
    \cup TrailingCommaTexts \cup TruncatedTexts \cup ErrorTexts

ExponentDigits ==
    {<<>>, <<Digit0>>, <<Digit(7)>>, <<Digit0, Digit0>>, <<Digit1, Digit2>>,
     <<Digit(3), Digit0, Digit(9)>>}

NumeralParts ==
    [sign : {<<>>, <<Minus>>, <<Plus>>},
     int : {<<>>, <<Digit0>>, <<Digit1>>, <<Digit1, Digit0>>, <<Digit0, Digit1>>,
            <<Digit0, Digit0>>},
     frac : {<<>>, <<Point>>, <<Point, Digit0>>, <<Point, Digit(5)>>,
             <<Point, Digit0, Digit(5)>>, <<Point, Digit(5), Digit0>>},
     exp : {<<>>} \cup {<<m>> \o sg \o d : m \in {LetterE, UpperE},
                                          sg \in {<<>>, <<Plus>>, <<Minus>>},
                                          d \in ExponentDigits}]

Numerals ==
    TextsUpTo(NumAlphabet, MaxNumLen)
    \cup {n.sign \o n.int \o n.frac \o n.exp : n \in NumeralParts}

MaxTokLen == 4

MaxStringLen == 4

TokAlphabet ==
    {Quote, Backslash, LetterA, Space, Comma, SquareClose, Digit1, Minus, Colon}

StringAlphabet == {LetterA, Backslash, Quote, Slash}

WhitespaceRuns == {<<Space>>, <<LineFeed>>, <<CarriageReturn, Tab>>}

Prefixes(word) == {SubSeq(word, 1, n) : n \in 1..Len(word)}

KeywordTexts ==
    {p \o tail :
        p \in Prefixes(<<LetterT, LetterR, LetterU, LetterE>>)
              \cup Prefixes(<<LetterF, LetterA, LetterL, LetterS, LetterE>>)
              \cup Prefixes(<<LetterN, LetterU, LetterL, LetterL>>),
        tail \in TextsUpTo({LetterE, LetterL, Space, Comma}, 2)}

NumberScanTexts ==
    {<<first>> \o run \o tail :
        first \in {Digit1, Minus},
        run \in TextsUpTo({Digit0, Point, Plus, UpperE}, 1),
        tail \in {<<>>} \cup
                 {<<d>> \o rest :
                     d \in {Comma, SquareClose, CurlyClose, Space, LineFeed,
                            CarriageReturn, Tab, Colon, CurlyOpen, SquareOpen, Quote,
                            LetterA},
                     rest \in {<<>>, <<Digit2>>, <<Comma>>, <<LetterA>>}}}

TokenizerTexts ==
    TextsUpTo(TokAlphabet, MaxTokLen)
    \cup {Quoted(c) : c \in TextsUpTo(StringAlphabet, MaxStringLen)}
    \cup {<<Quote>> \o c : c \in TextsUpTo(StringAlphabet, MaxStringLen)}
    \cup KeywordTexts
    \cup NumberScanTexts

(***************************************************************************)
(* Specification Spec: a document is parsed, the value tree is serialized  *)
(* and the serialized text is parsed again.                                *)
(***************************************************************************)
None == [kind |-> "None"]

TokenizerIdle ==
    /\ source_text = <<>>
    /\ scanned = None
    /\ padded = <<>>
    /\ padded_scanned = None
    /\ cursor = 1
    /\ emitted = <<>>
    /\ token_cursor = 1
    /\ tree = None

ObjectIdle ==
    /\ j_object = None
    /\ old_object = None
    /\ call = None
    /\ returned = None
    /\ calls = 0

StringIdle ==
    /\ raw = <<>>
    /\ j_string = None
    /\ wire = <<>>
    /\ wire_tokens = None

EqualityIdle ==
    /\ left_text = <<>>
    /\ right_text = <<>>
    /\ left = None
    /\ right = None
    /\ equal = None

ApiIdle == ObjectIdle /\ StringIdle /\ EqualityIdle

DocumentIdle ==
    /\ json_string = <<>>
    /\ parsed = None
    /\ order = <<>>
    /\ serialized = <<>>
    /\ reparsed = None
    /\ s = <<>>
    /\ number = None
    /\ rendered = <<>>

Init ==
    /\ json_string \in Documents
    /\ TokenizerIdle
    /\ ApiIdle
    /\ parsed = None
    /\ order = <<>>
    /\ serialized = <<>>
    /\ reparsed = None
    /\ s = <<>>
    /\ number = None
    /\ rendered = <<>>
    /\ pc = "start"

\* parser::parse(json_string)
Parse ==
    /\ pc = "start"
    /\ parsed' = parse(json_string)
    /\ pc' = "parsed"
    /\ UNCHANGED <<json_string, order, serialized, reparsed, s, number, rendered,
                 tokenizer_vars, api_vars>>

\* JValue::serialize of the tree parse returned
Serialize ==
    /\ pc = "parsed"
    /\ IsOk(parsed)
    /\ \E ord \in Orders(AllKeys(parsed.val)) :
          /\ order' = ord
          /\ serialized' = JValue_serialize(parsed.val, ord)
    /\ pc' = "serialized"
    /\ UNCHANGED <<json_string, parsed, reparsed, s, number, rendered,
                 tokenizer_vars, api_vars>>

\* parser::parse of the serialized text
Reparse ==
    /\ pc = "serialized"
    /\ reparsed' = parse(serialized)
    /\ pc' = "reparsed"
    /\ UNCHANGED <<json_string, parsed, order, serialized, s, number, rendered,
                 tokenizer_vars, api_vars>>

Next == Parse \/ Serialize \/ Reparse

Spec == Init /\ [][Next]_vars

(***************************************************************************)
(* Specification SpecNumber: a numeral is handed to JNumber::from_str and  *)
(* the JNumber is rendered back to text.                                   *)
(***************************************************************************)
InitNumber ==
    /\ s \in Numerals
    /\ TokenizerIdle
    /\ ApiIdle
    /\ number = None
    /\ rendered = <<>>
    /\ json_string = <<>>
    /\ parsed = None
    /\ order = <<>>
    /\ serialized = <<>>
    /\ reparsed = None
    /\ pc = "start"

\* JNumber::from_str(s)
FromStr ==
    /\ pc = "start"
    /\ number' = from_str(s)
    /\ pc' = "recognized"
    /\ UNCHANGED <<json_string, parsed, order, serialized, reparsed, s, rendered,
                 tokenizer_vars, api_vars>>

\* to_string() of the JNumber from_str returned
Render ==
    /\ pc = "recognized"
    /\ IsOk(number)
    /\ rendered' = JNumber_fmt(number.val)
    /\ pc' = "rendered"
    /\ UNCHANGED <<json_string, parsed, order, serialized, reparsed, s, number,
                 tokenizer_vars, api_vars>>

NextNumber == FromStr \/ Render

SpecNumber == InitNumber /\ [][NextNumber]_vars

(***************************************************************************)
(* Specification SpecTokenize: a text is tokenized; then a run of          *)
(* whitespace is inserted at a token boundary and the padded text is       *)
(* tokenized.  A position is a token boundary when the text before it and  *)
(* the text after it tokenize, on their own, to the two halves of the      *)
(* token sequence.                                                         *)
(***************************************************************************)
InitTokenize ==
    /\ source_text \in TokenizerTexts
    /\ ApiIdle
    /\ scanned = None
    /\ padded = <<>>
    /\ padded_scanned = None
    /\ cursor = 1
    /\ emitted = <<>>
    /\ token_cursor = 1
    /\ tree = None
    /\ json_string = <<>>
    /\ parsed = None
    /\ order = <<>>
    /\ serialized = <<>>
    /\ reparsed = None
    /\ s = <<>>
    /\ number = None
    /\ rendered = <<>>
    /\ pc = "start"

IsBoundary(txt, toks, p) ==
    LET before == tokenize(SubSeq(txt, 1, p))
        after == tokenize(SubSeq(txt, p + 1, Len(txt)))
    IN  IsOk(before) /\ IsOk(after) /\ before.val \o after.val = toks

\* tokenizer::tokenize(text)
Tokenize ==
    /\ pc = "start"
    /\ scanned' = tokenize(source_text)
    /\ pc' = "tokenized"
    /\ UNCHANGED <<json_string, parsed, order, serialized, reparsed, s, number, rendered,
                   source_text, padded, padded_scanned, cursor, emitted, token_cursor, tree,
                   api_vars>>

\* tokenizer::tokenize of the text with whitespace inserted at a token boundary
Pad ==
    /\ pc = "tokenized"
    /\ IsOk(scanned)
    /\ \E p \in 0..Len(source_text), ws \in WhitespaceRuns :
          /\ IsBoundary(source_text, scanned.val, p)
          /\ padded' = SubSeq(source_text, 1, p) \o ws
                        \o SubSeq(source_text, p + 1, Len(source_text))
          /\ padded_scanned' = tokenize(padded')
    /\ pc' = "padded"
    /\ UNCHANGED <<json_string, parsed, order, serialized, reparsed, s, number, rendered,
                   source_text, scanned, cursor, emitted, token_cursor, tree, api_vars>>

NextTokenize == Tokenize \/ Pad

SpecTokenize == InitTokenize /\ [][NextTokenize]_vars

(***************************************************************************)
(* Specification SpecScan: parse, one iteration of the tokenizer's loop at *)
(* a time.  `cursor` is the index of the character chars.next() yields     *)
(* next, `emitted` the token vector so far; when the characters are used   *)
(* up the value parser runs on the tokens, and `token_cursor` is the index *)
(* of the token tokens_itr.next() would yield after it.  The steps of one  *)
(* call follow each other without a scheduler, so the step that is enabled *)
(* is taken: SpecScanFair adds that.                                       *)
(***************************************************************************)
MaxScanLen == 3

ScanAlphabet == TokAlphabet \cup {SquareOpen}

ScanContainers ==
    {<<SquareOpen>> \o e \o <<SquareClose>> : e \in ElementTexts}
    \cup {<<SquareOpen>> \o e \o <<Comma>> \o f \o <<SquareClose>> :
             e \in ElementTexts, f \in ElementTexts}
    \cup {<<CurlyOpen>> \o q \o <<CurlyClose>> : q \in PairTexts}

ScanTexts ==
    TextsUpTo(ScanAlphabet, MaxScanLen) \cup KeywordTexts \cup NumberScanTexts
    \cup ScanContainers \cup TrailingCommaTexts

InitScan ==
    /\ source_text \in ScanTexts
    /\ cursor = 1
    /\ emitted = <<>>
    /\ scanned = None
    /\ token_cursor = 1
    /\ tree = None
    /\ padded = <<>>
    /\ padded_scanned = None
    /\ ApiIdle
    /\ DocumentIdle
    /\ pc = "scanning"

\* tokenize: chars.next() is Some(c), and the arm for c pushes its tokens
ScanToken ==
    /\ pc = "scanning"
    /\ cursor <= Len(source_text)
    /\ IsOk(next_token(source_text, cursor))
    /\ emitted' = emitted \o next_token(source_text, cursor).toks
    /\ cursor' = next_token(source_text, cursor).next
    /\ UNCHANGED <<json_string, parsed, order, serialized, reparsed, s, number, rendered, pc,
                   source_text, scanned, padded, padded_scanned, token_cursor, tree, api_vars>>

\* tokenize: chars.next() is Some(c), and the arm for c returns an error,
\* which parse returns with `?`
ScanError ==
    /\ pc = "scanning"
    /\ cursor <= Len(source_text)
    /\ ~IsOk(next_token(source_text, cursor))
    /\ scanned' = next_token(source_text, cursor)
    /\ tree' = scanned'
    /\ pc' = "returned"
    /\ UNCHANGED <<json_string, parsed, order, serialized, reparsed, s, number, rendered,
                   source_text, padded, padded_scanned, cursor, emitted, token_cursor,
                   api_vars>>

\* tokenize: chars.next() is None, the loop breaks and Ok(tokens) is returned
ScanEnd ==
    /\ pc = "scanning"
    /\ cursor > Len(source_text)
    /\ scanned' = Ok(emitted)
    /\ pc' = "tokens_ready"
    /\ UNCHANGED <<json_string, parsed, order, serialized, reparsed, s, number, rendered,
                   source_text, padded, padded_scanned, cursor, emitted, token_cursor, tree,
                   api_vars>>

\* parse: get_jvalue(&mut tokens_itr) on the iterator over the tokens
ParseTokens ==
    /\ pc = "tokens_ready"
    /\ LET r == get_jvalue(emitted, 1) IN
          /\ tree' = IF IsOk(r) THEN Ok(r.val) ELSE r
          /\ token_cursor' = IF IsOk(r) THEN r.next ELSE token_cursor
    /\ pc' = "returned"
    /\ UNCHANGED <<json_string, parsed, order, serialized, reparsed, s, number, rendered,
                   source_text, scanned, padded, padded_scanned, cursor, emitted, api_vars>>

NextScan == ScanToken \/ ScanError \/ ScanEnd \/ ParseTokens

SpecScan == InitScan /\ [][NextScan]_vars

\* The step of ParseTokens as pc shows it: within SpecScan a step from
\* "tokens_ready" to "returned" is a step of ParseTokens, and whether one is
\* possible does not depend on the value the parser builds.
ParseReturns == pc = "tokens_ready" /\ pc' = "returned"

SpecScanFair ==
    SpecScan /\ WF_vars(ScanToken \/ ScanError \/ ScanEnd) /\ WF_pc(ParseReturns)

(***************************************************************************)
(* Specification SpecEquality: two texts are parsed and the two values     *)
(* are compared with ==.  The texts spell numbers in several ways, among   *)
(* them numbers whose value is infinite or not a number, and one value of  *)
(* every other variant.                                                    *)
(***************************************************************************)
Hundred == <<Digit1, Digit0, Digit0>>

NumberSpellings ==
    {<<Digit1, LetterE, Digit2>>, Hundred, Hundred \o <<Point, Digit0>>,
     <<Digit1>>, <<Digit1, Point, Digit0>>, <<Minus, Digit1>>,
     <<Digit0, Point, Digit0>>, <<Minus, Digit0, Point, Digit0>>,
     <<Digit1, LetterE>> \o Hundred \o Hundred,
     <<Digit0, Point, Digit0, LetterE>> \o Hundred \o Hundred}

ThreeHundreds ==
    <<SquareOpen, Digit1, LetterE, Digit2, Comma, Space>> \o Hundred
        \o <<Comma, Space>> \o Hundred \o <<Point, Digit0, SquareClose>>

ValueTexts ==
    NumberSpellings
    \cup {Quoted(Hundred), Quoted(<<LetterA>>),
          <<LetterT, LetterR, LetterU, LetterE>>,
          <<LetterF, LetterA, LetterL, LetterS, LetterE>>,
          <<LetterN, LetterU, LetterL, LetterL>>,
          <<SquareOpen, SquareClose>>, <<CurlyOpen, CurlyClose>>,
          <<SquareOpen>> \o Hundred \o <<SquareClose>>,
          <<SquareOpen, Digit1, LetterE, Digit2, SquareClose>>,
          <<CurlyOpen>> \o PairText(<<LetterA>>, Hundred) \o <<CurlyClose>>,
          ThreeHundreds}

InitEquality ==
    /\ left_text \in ValueTexts
    /\ right_text \in ValueTexts
    /\ left = None
    /\ right = None
    /\ equal = None
    /\ DocumentIdle
    /\ TokenizerIdle
    /\ ObjectIdle
    /\ StringIdle
    /\ pc = "start"

\* parser::parse of the two texts
ParseBoth ==
    /\ pc = "start"
    /\ left' = parse(left_text)
    /\ right' = parse(right_text)
    /\ pc' = "both_parsed"
    /\ UNCHANGED <<json_string, parsed, order, serialized, reparsed, s, number, rendered,
                   tokenizer_vars, object_vars, string_vars, left_text, right_text, equal>>

\* left == right of the two JValues
Compare ==
    /\ pc = "both_parsed"
    /\ IsOk(left)
    /\ IsOk(right)
    /\ equal' = JValue_eq(left.val, right.val)
    /\ pc' = "compared"
    /\ UNCHANGED <<json_string, parsed, order, serialized, reparsed, s, number, rendered,
                   tokenizer_vars, object_vars, string_vars, left_text, right_text,
                   left, right>>

NextEquality == ParseBoth \/ Compare

SpecEquality == InitEquality /\ [][NextEquality]_vars

(***************************************************************************)
(* Specification SpecObject: insert and remove are called, at most         *)
(* MaxCalls times, on an object that starts as JObject::new().  The state  *)
(* keeps the object before the last call, the call and what it returned.   *)
(***************************************************************************)
MaxCalls == 3

ObjectKeys == Keys \cup {<<LetterA, LetterB>>}

ObjectValues == {JNull, JBoolean(TRUE), JBoolean(FALSE)}

InitObject ==
    /\ j_object = JObject_new
    /\ old_object = JObject_new
    /\ call = [op |-> "new"]
    /\ returned = None
    /\ calls = 0
    /\ DocumentIdle
    /\ TokenizerIdle
    /\ StringIdle
    /\ EqualityIdle
    /\ pc = "start"

\* JObject::insert(k, v)
Insert ==
    /\ calls < MaxCalls
    /\ \E k \in ObjectKeys, v \in ObjectValues :
          LET r == JObject_insert(j_object, k, v) IN
          /\ j_object' = r.obj
          /\ returned' = [some |-> r.some, old |-> r.old]
          /\ call' = [op |-> "insert", k |-> k, v |-> v]
    /\ old_object' = j_object
    /\ calls' = calls + 1
    /\ UNCHANGED <<json_string, parsed, order, serialized, reparsed, s, number, rendered,
                   pc, tokenizer_vars, string_vars, equality_vars>>

\* JObject::remove(k)
Remove ==
    /\ calls < MaxCalls
    /\ \E k \in ObjectKeys :
          LET r == JObject_remove(j_object, k) IN
          /\ j_object' = r.obj
          /\ returned' = [some |-> r.some, old |-> r.old]
          /\ call' = [op |-> "remove", k |-> k]
    /\ old_object' = j_object
    /\ calls' = calls + 1
    /\ UNCHANGED <<json_string, parsed, order, serialized, reparsed, s, number, rendered,
                   pc, tokenizer_vars, string_vars, equality_vars>>

NextObject == Insert \/ Remove

SpecObject == InitObject /\ [][NextObject]_vars

(***************************************************************************)
(* Specification SpecString: JString::new is called on a string of at      *)
(* most MaxRawLen characters, each a control character, a space, a quote,  *)
(* a backslash or a letter; an accepted value is serialized and the text   *)
(* is tokenized.                                                           *)
(***************************************************************************)
MaxRawLen == 2

RawAlphabet == 0..Space \cup {Quote, LetterA, Backslash}

InitString ==
    /\ raw \in TextsUpTo(RawAlphabet, MaxRawLen)
    /\ j_string = None
    /\ wire = <<>>
    /\ wire_tokens = None
    /\ DocumentIdle
    /\ TokenizerIdle
    /\ ObjectIdle
    /\ EqualityIdle
    /\ pc = "start"

\* JString::new(str)
NewString ==
    /\ pc = "start"
    /\ j_string' = JString_new(raw)
    /\ pc' = "built"
    /\ UNCHANGED <<json_string, parsed, order, serialized, reparsed, s, number, rendered,
                   tokenizer_vars, object_vars, equality_vars, raw, wire, wire_tokens>>

\* j_string.serialize(), for a value that JString::new accepted
SerializeString ==
    /\ pc = "built"
    /\ IsOk(j_string)
    /\ wire' = JString_serialize(j_string.val)
    /\ pc' = "on_wire"
    /\ UNCHANGED <<json_string, parsed, order, serialized, reparsed, s, number, rendered,
                   tokenizer_vars, object_vars, equality_vars, raw, j_string, wire_tokens>>

\* tokenize(&serialized), on the text that serialize gave
TokenizeWire ==
    /\ pc = "on_wire"
    /\ wire_tokens' = tokenize(wire)
    /\ pc' = "rescanned"
    /\ UNCHANGED <<json_string, parsed, order, serialized, reparsed, s, number, rendered,
                   tokenizer_vars, object_vars, equality_vars, raw, j_string, wire>>

NextString == NewString \/ SerializeString \/ TokenizeWire

SpecString == InitString /\ [][NextString]_vars

(***************************************************************************)
(* The JSON number grammar, read off the grammar and not off the code:     *)
(* optional '-', then "0" or a nonzero digit and digits, then optionally   *)
(* '.' and one or more digits, then optionally 'e'/'E', an optional sign   *)
(* and one or more digits.  GrammarRun walks the automaton of the grammar  *)
(* and collects the parts of the literal.                                  *)
(***************************************************************************)
GrammarStart == [q |-> "start", frac |-> <<>>, exp |-> <<>>]

GrammarStep(g, c) ==
    LET to(q) == [g EXCEPT !.q = q] IN
    CASE g.q = "start" /\ c = Minus -> to("minus")
      [] g.q \in {"start", "minus"} /\ c = Digit0 -> to("zero")
      [] g.q \in {"start", "minus"} /\ c > Digit0 /\ c <= Digit9 -> to("int")
      [] g.q = "int" /\ IsDigit(c) -> to("int")
      [] g.q \in {"zero", "int"} /\ c = Point -> to("point")
      [] g.q \in {"point", "frac"} /\ IsDigit(c) ->
            [g EXCEPT !.q = "frac", !.frac = Append(@, c)]
      [] g.q \in {"zero", "int", "frac"} /\ c \in {LetterE, UpperE} -> to("marker")
      [] g.q = "marker" /\ c \in {Plus, Minus} -> to("sign")
      [] g.q \in {"marker", "sign", "exp"} /\ IsDigit(c) ->
            [g EXCEPT !.q = "exp", !.exp = Append(@, c)]
      [] OTHER -> to("dead")

RECURSIVE GrammarRun(_, _)
GrammarRun(g, str) ==
    IF str = <<>> THEN g ELSE GrammarRun(GrammarStep(g, Head(str)), Tail(str))

IsJsonNumber(str) == GrammarRun(GrammarStart, str).q \in {"zero", "int", "frac", "exp"}

FractionOf(str) == GrammarRun(GrammarStart, str).frac

ExponentOf(str) == GrammarRun(GrammarStart, str).exp

(***************************************************************************)
(* Well-formed documents, by construction: the element texts, and the      *)
(* arrays and objects whose items are separated by a single comma and      *)
(* whose keys are pairwise distinct.                                       *)
(***************************************************************************)
ObjectText(pairs) ==
    <<CurlyOpen>> \o PairText(pairs[1].key, pairs[1].val) \o <<Comma>>
    \o PairText(pairs[2].key, pairs[2].val) \o <<CurlyClose>>

TwoPairs == [1..2 -> [key : Keys, val : ElementTexts]]

ValidDocuments ==
    ElementTexts
    \cup {Quoted(<<Slash>>), Quoted(<<LetterA, Slash>>)}
    \cup {<<SquareOpen>> \o a \o <<Comma>> \o b \o <<SquareClose>> :
             a \in ElementTexts, b \in ElementTexts}
    \cup {ObjectText(p) : p \in {x \in TwoPairs : x[1].key # x[2].key}}

(***************************************************************************)
(* The claims.                                                             *)
(***************************************************************************)

\* C1: parse always finishes with Ok(value tree) or Err(message): no input,
\* and no numeral span the tokenizer hands over, makes parse or the number
\* recognizer abort instead of returning a Result.
C1_ParseReturnsResult == pc = "parsed" => parsed.kind \in {"Ok", "Err"}

\* C2: if a token remains unconsumed after the root value has been fully
\* parsed, parse returns an error and not the root value.
C2_TrailingTokensRejected ==
    pc = "parsed" =>
        LET tokens == tokenize(json_string) IN
        IsOk(tokens) =>
            LET root == get_jvalue(tokens.val, 1) IN
            (IsOk(root) /\ root.next <= Len(tokens.val)) => IsErr(parsed)

\* C3: an object text with two or more pairs that have pairwise distinct keys,
\* are separated by ',' and closed by '}' parses to an Object holding exactly
\* those pairs.
C3_CommaSeparatedPairsParsed ==
    pc = "parsed" =>
        \A p \in TwoPairs :
            (p[1].key # p[2].key /\ json_string = ObjectText(p)) =>
                /\ IsOk(parsed)
                /\ parsed.val.type = "Object"
                /\ DOMAIN parsed.val.o.value = {p[1].key, p[2].key}
                /\ \A i \in 1..2 :
                      JValue_eq(parsed.val.o.value[p[i].key], parse(p[i].val).val)

\* C4: after a key/value pair only ',' and '}' are accepted: a pair followed
\* directly by another string key, with no ',' between them, makes parse fail.
C4_MissingCommaRejected ==
    pc = "parsed" =>
        \A p1 \in PairTexts, p2 \in PairTexts :
            json_string = <<CurlyOpen>> \o p1 \o <<Space>> \o p2 \o <<CurlyClose>>
                => IsErr(parsed)

\* C5: an object text in which the same key occurs in two pairs makes parse
\* fail with the error that names the duplicate key.
C5_DuplicateKeyNamed ==
    pc = "parsed" =>
        \A p \in TwoPairs :
            (p[1].key = p[2].key /\ json_string = ObjectText(p)) =>
                /\ IsErr(parsed)
                /\ parsed.err = "Invalid JSON object: the key {} is not unique"
                /\ parsed.arg = p[1].key

\* C6: round-trip stability: for a valid document d, parse(serialize(parse(d)))
\* succeeds and is structurally equal to parse(d).
C6_RoundTripStable ==
    (pc = "reparsed" /\ json_string \in ValidDocuments) =>
        IsOk(reparsed) /\ JValue_eq(reparsed.val, parsed.val)

\* C7: the number recognizer accepts every string of the JSON number grammar,
\* in particular a lone integer part "0" followed directly by an exponent.
C7_GrammarAccepted == (pc = "recognized" /\ IsJsonNumber(s)) => IsOk(number)

\* C8: the integer digits of every Decimal Number the recognizer returns are
\* exactly "0" or start with a nonzero digit, for unsigned and negative
\* literals alike.
C8_NoLeadingZero ==
    (pc = "recognized" /\ IsOk(number)) =>
        \/ number.val.integer_part = <<Digit0>>
        \/ (number.val.integer_part # <<>> /\ Head(number.val.integer_part) # Digit0)

\* C9: for every valid literal s whose fractional part and exponent part are
\* each absent or different from "0", from_str(s) succeeds and rendering the
\* result yields s character for character.
C9_RenderReproducesLiteral ==
    (pc # "start" /\ IsJsonNumber(s) /\ FractionOf(s) # <<Digit0>>
     /\ ExponentOf(s) # <<Digit0>>) =>
        IsOk(number) /\ (pc = "rendered" => rendered = s)

\* C10: when the exponent digits are "0", rendering emits neither the exponent
\* marker nor the exponent sign nor the exponent digits.
C10_ZeroExponentOmitted ==
    (pc = "rendered" /\ number.val.exponent = <<Digit0>>) =>
        \A i \in 1..Len(rendered) :
            /\ rendered[i] \notin {LetterE, UpperE, Plus}
            /\ rendered[i] = Minus => i = 1

(***************************************************************************)
(* The index an error of the number recognizer carries (the last argument  *)
(* of its message), and, from the grammar alone, the length of the longest *)
(* prefix of a text that some valid JSON number starts with: every state   *)
(* of the grammar automaton but "dead" can still reach an accepting one.   *)
(***************************************************************************)
ErrorIndex(r) == r.arg[Len(r.arg)]

ViablePrefixLen(str) ==
    LET live == {n \in 0..Len(str) :
                    GrammarRun(GrammarStart, SubSeq(str, 1, n)).q # "dead"}
    IN  CHOOSE n \in live : \A m \in live : m <= n

\* C11: for every input the number recognizer rejects, the index in the error
\* is the length of the longest prefix of the input that is still a prefix of
\* some valid JSON number, the 0-based index of the first offending character.
C11_ErrorIndexIsFirstOffender ==
    (pc = "recognized" /\ IsErr(number)) => ErrorIndex(number) = ViablePrefixLen(s)

IsExponentMarker(c) == c \in {LetterE, UpperE}

IsSign(c) == c \in {Plus, Minus}

FirstMarker(str) ==
    LET ms == {n \in 1..Len(str) : IsExponentMarker(str[n])}
    IN  IF ms = {} THEN 0 ELSE CHOOSE n \in ms : \A m \in ms : n <= m

LegalSign(str, n) ==
    (n = 1 /\ str[n] = Minus) \/ (n > 1 /\ FirstMarker(str) = n - 1)

MisplacedSigns(str) ==
    {n \in 1..Len(str) :
        IsSign(str[n]) /\ ~LegalSign(str, n) /\ ViablePrefixLen(str) >= n - 1}

RepeatedMarkers(str) ==
    {n \in 1..Len(str) :
        /\ ViablePrefixLen(str) >= n - 1
        /\ \E m \in 1..(n - 1) :
              \/ (str[n] = Point /\ (str[m] = Point \/ IsExponentMarker(str[m])))
              \/ (IsExponentMarker(str[n]) /\ IsExponentMarker(str[m]))}

\* C13: a '+' at index 0, and a '+' or '-' anywhere but ('-' at index 0) or
\* (directly after the exponent marker), makes from_str fail with an error
\* that carries the index of that sign, the sign being the first character
\* that cannot continue a valid number.
C13_MisplacedSignIndex ==
    pc = "recognized" =>
        \A n \in MisplacedSigns(s) : IsErr(number) /\ ErrorIndex(number) = n - 1

\* C14: a second '.', a '.' after the exponent marker and a second 'e'/'E'
\* make from_str fail with an error that carries the index of that second
\* marker, the marker being the first character that cannot continue a valid
\* number.
C14_RepeatedMarkerIndex ==
    pc = "recognized" =>
        \A n \in RepeatedMarkers(s) : IsErr(number) /\ ErrorIndex(number) = n - 1

(***************************************************************************)
(* String literals by the escape rule of JSON, read off the text alone: a  *)
(* backslash escapes the character after it, whatever that character is,   *)
(* so a quote is escaped only when an odd number of backslashes comes       *)
(* directly before it.  UnescapedQuote is the position of the first quote  *)
(* at or after position i that is not escaped, 0 when there is none.       *)
(***************************************************************************)
RECURSIVE UnescapedQuote(_, _, _)
UnescapedQuote(str, i, escaped) ==
    IF i > Len(str) THEN 0
    ELSE IF escaped THEN UnescapedQuote(str, i + 1, FALSE)
    ELSE IF str[i] = Backslash THEN UnescapedQuote(str, i + 1, TRUE)
    ELSE IF str[i] = Quote THEN i
    ELSE UnescapedQuote(str, i + 1, FALSE)

EndOfFileError == "Invalid string token at the end of file!"

\* C15: a string-literal scan ends at the first unescaped '"', a quote being
\* escaped only when the backslash before it is itself unescaped: a text
\* that is one literal, closed by its first unescaped quote, is tokenized as
\* one StringLiteral holding the characters between the two quotes.
C15_ScanEndsAtFirstUnescapedQuote ==
    (/\ pc = "tokenized"
     /\ Len(source_text) >= 2
     /\ source_text[1] = Quote
     /\ UnescapedQuote(source_text, 2, FALSE) = Len(source_text))
        => /\ IsOk(scanned)
           /\ scanned.val = <<TokString(SubSeq(source_text, 2, Len(source_text) - 1))>>

(***************************************************************************)
(* A quote at position p + 1 opens a string literal when the text before   *)
(* it tokenizes on its own and does not end in a character a numeric scan  *)
(* would still be reading.                                                 *)
(***************************************************************************)
IsNumberChar(c) == IsDigit(c) \/ c \in {Point, Minus, Plus, LetterE, UpperE}

OpensLiteral(str, p) ==
    /\ p < Len(str)
    /\ str[p + 1] = Quote
    /\ IsOk(tokenize(SubSeq(str, 1, p)))
    /\ p > 0 => ~IsNumberChar(str[p])

Spelling(tok) == IF tok.t = "String" THEN Quoted(tok.s) ELSE Token_fmt(tok)

RECURSIVE Unlex(_)
Unlex(toks) == IF toks = <<>> THEN <<>> ELSE Spelling(Head(toks)) \o Unlex(Tail(toks))

HasWhitespace(str) == \E n \in 1..Len(str) : IsWhitespace(str[n])

\* C17: the tokenizer decodes no escape: the text of every StringLiteral
\* token is exactly the characters between the opening and the closing quote
\* of the input, escape backslashes included, in the same order.  Spelling
\* the tokens of a text without whitespace gives the text back, and a text
\* that is one literal gives the characters between its first and last quote.
C17_NoEscapeDecoding ==
    (pc = "tokenized" /\ IsOk(scanned))
        => /\ ~HasWhitespace(source_text) => Unlex(scanned.val) = source_text
           /\ (Len(scanned.val) = 1 /\ scanned.val[1].t = "String"
                   /\ source_text[1] = Quote /\ source_text[Len(source_text)] = Quote)
                 => scanned.val[1].s = SubSeq(source_text, 2, Len(source_text) - 1)

C17_Witness ==
    /\ pc = "tokenized"
    /\ source_text = Quoted(<<Backslash, Quote, LetterA>>)
    /\ IsOk(scanned)
    /\ scanned.val = <<TokString(<<Backslash, Quote, LetterA>>)>>

\* C18: whitespace between tokens is discarded: a run of space, line feed,
\* carriage return or tab inserted before the first token, between two tokens
\* or after the last one leaves the token sequence of tokenize unchanged.
C18_WhitespaceDiscarded ==
    pc = "padded" => (IsOk(padded_scanned) /\ padded_scanned.val = scanned.val)

C18_Witness ==
    /\ pc = "padded"
    /\ source_text = <<Digit1, Comma, Quote, Quote>>
    /\ padded = <<Digit1, CarriageReturn, Tab, Comma, Quote, Quote>>
    /\ IsOk(padded_scanned)
    /\ padded_scanned.val = <<TokNumber(<<Digit1>>), TokComma, TokString(<<>>)>>

(***************************************************************************)
(* The tokens of a first token followed by the tokens of the rest of the   *)
(* text, or the error of the rest.                                         *)
(***************************************************************************)
Followed(toks, rest) ==
    LET r == tokenize(rest) IN IF IsOk(r) THEN Ok(toks \o r.val) ELSE r

RECURSIVE NumberRun(_, _)
NumberRun(str, n) ==
    IF n < Len(str) /\ IsNumberChar(str[n + 1]) THEN NumberRun(str, n + 1) ELSE n

DelimiterToken(c) ==
    CASE c = Comma -> TokComma
      [] c = SquareClose -> TokSquareBracketClose
      [] c = CurlyClose -> TokCurlyBracketClose

\* C19: a numeric scan takes the longest run of digits, '.', '-', '+', 'e',
\* 'E' as one NumericLiteral without checking the grammar; a ',', ']' or '}'
\* that ends the run is emitted as its own token directly after the literal,
\* whitespace and the end of the input emit nothing more, and any other
\* character ends tokenizing with the "Invalid char" error.
C19_NumericScan ==
    (pc = "tokenized" /\ Len(source_text) > 0
        /\ (IsDigit(source_text[1]) \/ source_text[1] = Minus))
        => LET k == NumberRun(source_text, 1)
               literal == TokNumber(SubSeq(source_text, 1, k))
               rest == SubSeq(source_text, k + 2, Len(source_text))
           IN  IF k = Len(source_text) THEN scanned = Ok(<<literal>>)
               ELSE IF IsWhitespace(source_text[k + 1])
                    THEN scanned = Followed(<<literal>>, rest)
               ELSE IF source_text[k + 1] \in {Comma, SquareClose, CurlyClose}
                    THEN scanned =
                            Followed(<<literal, DelimiterToken(source_text[k + 1])>>, rest)
               ELSE scanned = Err("Invalid char", <<source_text[k + 1]>>)

C19_Witness ==
    /\ pc = "tokenized"
    /\ source_text = <<Minus, Plus, SquareClose, Digit2>>
    /\ scanned = Ok(<<TokNumber(<<Minus, Plus>>), TokSquareBracketClose,
                      TokNumber(<<Digit2>>)>>)

LongestCommonPrefix(a, b) ==
    LET common == {n \in 0..Len(a) : n <= Len(b) /\ SubSeq(a, 1, n) = SubSeq(b, 1, n)}
    IN  CHOOSE n \in common : \A m \in common : m <= n

Keyword(c) ==
    CASE c = LetterT -> TokTrue
      [] c = LetterF -> TokFalse
      [] c = LetterN -> TokNull

\* C20: after 't', 'f' or 'n' the following characters must spell "true",
\* "false" or "null"; at the first deviating character, or at the end of the
\* input, tokenize fails with "Invalid token" and the keyword prefix matched
\* so far plus the deviating character if there is one.
C20_KeywordSpelling ==
    (pc = "tokenized" /\ Len(source_text) > 0
        /\ source_text[1] \in {LetterT, LetterF, LetterN})
        => LET word == Token_fmt(Keyword(source_text[1]))
               n == LongestCommonPrefix(word, source_text)
           IN  IF n = Len(word)
               THEN scanned = Followed(<<Keyword(source_text[1])>>,
                                       SubSeq(source_text, n + 1, Len(source_text)))
               ELSE /\ IsErr(scanned)
                    /\ scanned.err = "Invalid token"
                    /\ scanned.arg = IF n < Len(source_text)
                                     THEN SubSeq(source_text, 1, n + 1)
                                     ELSE source_text

C20_Witness ==
    /\ pc = "tokenized"
    /\ source_text = <<LetterT, LetterR, LetterU, Space>>
    /\ IsErr(scanned)
    /\ scanned.arg = <<LetterT, LetterR, LetterU, Space>>

(***************************************************************************)
(* Position p + 1 of a text is bare when the text before it tokenizes on   *)
(* its own and does not end in a character a numeric scan would still be   *)
(* reading: the scanner is then between tokens.  The characters that may   *)
(* stand in a bare position are the ones the match of tokenize names.      *)
(***************************************************************************)
IsBare(str, p) ==
    /\ p < Len(str)
    /\ IsOk(tokenize(SubSeq(str, 1, p)))
    /\ p > 0 => ~IsNumberChar(str[p])

StartsToken(c) ==
    \/ c \in {CurlyOpen, CurlyClose, SquareOpen, SquareClose, Colon, Comma}
    \/ IsWhitespace(c)
    \/ c = Quote
    \/ IsDigit(c)
    \/ c \in {Minus, LetterT, LetterF, LetterN}

C22_TrailingCommaRejected ==
    (pc = "parsed" /\ IsOk(tokenize(json_string)))
        => LET toks == tokenize(json_string).val
               n == Len(toks)
           IN  (/\ n >= 3
                /\ toks[1].t = "SquareBracketOpen"
                /\ toks[n - 1].t = "Comma"
                /\ toks[n].t = "SquareBracketClose")
                   => ~IsOk(parsed)

(***************************************************************************)
(* The grammar of JSON over tokens, written from the grammar alone, as a   *)
(* stack machine.  The top of the stack says what may come next: a value   *)
(* ("value" for the document, "arr_first" after '[' where ']' may come     *)
(* too, "arr_value" after a ',' of an array, "obj_value" after ':'), a     *)
(* separator or the close ("arr_sep", "obj_sep"), a key ("obj_first"       *)
(* after '{' where '}' may come too, "obj_key" after a ','), the colon     *)
(* ("obj_colon"), nothing more ("done").  A container that is opened is    *)
(* pushed over the state its value leads to.                               *)
(***************************************************************************)
TokenStart == <<"value">>

TokenDead == <<"dead">>

AfterValue(q) ==
    CASE q = "value" -> "done"
      [] q \in {"arr_first", "arr_value"} -> "arr_sep"
      [] q = "obj_value" -> "obj_sep"

TokenStep(stack, tok) ==
    LET q == stack[Len(stack)]
        below == SubSeq(stack, 1, Len(stack) - 1)
        to(r) == Append(below, r)
    IN  CASE q \in {"value", "arr_first", "arr_value", "obj_value"}
                 /\ tok.t \in {"String", "Number", "True", "False", "Null"} ->
                to(AfterValue(q))
          [] q \in {"value", "arr_first", "arr_value", "obj_value"}
                 /\ tok.t = "SquareBracketOpen" -> Append(to(AfterValue(q)), "arr_first")
          [] q \in {"value", "arr_first", "arr_value", "obj_value"}
                 /\ tok.t = "CurlyBracketOpen" -> Append(to(AfterValue(q)), "obj_first")
          [] q \in {"arr_first", "arr_sep"} /\ tok.t = "SquareBracketClose" -> below
          [] q = "arr_sep" /\ tok.t = "Comma" -> to("arr_value")
          [] q \in {"obj_first", "obj_key"} /\ tok.t = "String" -> to("obj_colon")
          [] q \in {"obj_first", "obj_sep"} /\ tok.t = "CurlyBracketClose" -> below
          [] q = "obj_colon" /\ tok.t = "Colon" -> to("obj_value")
          [] q = "obj_sep" /\ tok.t = "Comma" -> to("obj_key")
          [] OTHER -> TokenDead

RECURSIVE TokenRun(_, _)
TokenRun(stack, toks) ==
    IF toks = <<>> THEN stack ELSE TokenRun(TokenStep(stack, Head(toks)), Tail(toks))

\* The innermost container that is open when the token sequence ends, for a
\* sequence that some valid document starts with; "none" otherwise.
OpenAtEnd(toks) ==
    LET stack == TokenRun(TokenStart, toks)
        q == stack[Len(stack)]
    IN  IF Len(stack) < 2 THEN "none"
        ELSE IF q \in {"arr_first", "arr_value", "arr_sep"} THEN "array"
        ELSE "object"

\* Every literal of the token sequence is one the number recognizer and the
\* string validator accept.
LeavesAccepted(toks) ==
    \A n \in 1..Len(toks) :
        /\ toks[n].t = "Number" => IsOk(from_str(toks[n].s))
        /\ toks[n].t = "String" => IsOk(JString_new(toks[n].s))

\* C23: parse never returns Ok for a token sequence that ends while an array
\* or an object is still open: inside an array the error reports the missing
\* ']', inside an object it reports the missing '}', the missing ':' or that
\* there is no token for the value.
C23_OpenContainerFails ==
    (pc = "parsed" /\ IsOk(tokenize(json_string)))
        => LET toks == tokenize(json_string).val IN
           /\ OpenAtEnd(toks) # "none" => ~IsOk(parsed)
           /\ (OpenAtEnd(toks) = "array" /\ LeavesAccepted(toks))
                 => /\ IsErr(parsed)
                    /\ parsed.err = "Invalid JSON array! Missing a closing square bracket"
           /\ (OpenAtEnd(toks) = "object" /\ LeavesAccepted(toks))
                 => /\ IsErr(parsed)
                    /\ parsed.err \in
                          {"Invalid JSON object! Missing a closing curly bracket",
                           "Invalid JSON object! Missing a colon",
                           "No Token Found"}

\* The state of the token grammar in which token n of the sequence is read.
PositionOf(toks, n) ==
    LET stack == TokenRun(TokenStart, SubSeq(toks, 1, n - 1)) IN stack[Len(stack)]

\* A literal token mapped to its variant: the value, or the failure of the
\* number recognizer or of the string validator.
Dispatched(tok, r) ==
    CASE tok.t = "True" -> IsOk(r) /\ r.val = JBoolean(TRUE)
      [] tok.t = "False" -> IsOk(r) /\ r.val = JBoolean(FALSE)
      [] tok.t = "Null" -> IsOk(r) /\ r.val = JNull
      [] tok.t = "Number" ->
            LET n == from_str(tok.s) IN
            IF IsOk(n) THEN IsOk(r) /\ r.val = JNumberV(n.val) ELSE r = n
      [] tok.t = "String" ->
            LET js == JString_new(tok.s) IN
            IF IsOk(js) THEN IsOk(r) /\ r.val = JStringV(js.val) ELSE r = js
      [] tok.t = "SquareBracketOpen" -> IsOk(r) => r.val.type = "Array"
      [] tok.t = "CurlyBracketOpen" -> IsOk(r) => r.val.type = "Object"
      [] OTHER -> ~IsOk(r)

\* C24: an empty token sequence makes parse fail, and so does a value
\* position that holds '}', ']', ':' or ',' (']' directly after '[' closes
\* the empty array); every other first token is mapped to its variant.
C24_ValueDispatch ==
    (pc = "parsed" /\ IsOk(tokenize(json_string)))
        => LET toks == tokenize(json_string).val IN
           /\ toks = <<>> => IsErr(parsed)
           /\ toks # <<>> => Dispatched(toks[1], parsed)
           /\ \A n \in 1..Len(toks) :
                 (\/ /\ PositionOf(toks, n) \in {"value", "arr_value", "obj_value"}
                     /\ toks[n].t \in {"CurlyBracketClose", "SquareBracketClose",
                                       "Colon", "Comma"}
                  \/ /\ PositionOf(toks, n) = "arr_first"
                     /\ toks[n].t \in {"CurlyBracketClose", "Colon", "Comma"})
                    => ~IsOk(parsed)

(***************************************************************************)
(* The number of separating commas a value calls for: in every container   *)
(* of n elements, n - 1 of them, none when it is empty.                    *)
(***************************************************************************)
CommasFor(n) == IF n > 0 THEN n - 1 ELSE 0

RECURSIVE Separators(_)
RECURSIVE SeparatorsInArray(_, _)
RECURSIVE SeparatorsInObject(_, _)

SeparatorsInArray(array, i) ==
    IF i > Len(array) THEN 0
    ELSE Separators(array[i]) + SeparatorsInArray(array, i + 1)

SeparatorsInObject(map, keys) ==
    IF keys = {} THEN 0
    ELSE LET k == CHOOSE x \in keys : TRUE IN
         Separators(map[k]) + SeparatorsInObject(map, keys \ {k})

Separators(v) ==
    CASE v.type = "Array" -> CommasFor(Len(v.a)) + SeparatorsInArray(v.a, 1)
      [] v.type = "Object" ->
            CommasFor(Cardinality(DOMAIN v.o.value))
                + SeparatorsInObject(v.o.value, DOMAIN v.o.value)
      [] OTHER -> 0

CountOf(c, str) == Cardinality({n \in 1..Len(str) : str[n] = c})

\* No string literal of the token sequence holds a comma or whitespace.
PlainStrings(toks) ==
    \A n \in 1..Len(toks) :
        toks[n].t = "String" =>
            \A m \in 1..Len(toks[n].s) :
                toks[n].s[m] # Comma /\ ~IsWhitespace(toks[n].s[m])

\* C25: serialize of a container with n elements emits exactly max(n-1, 0)
\* separating commas, no trailing comma and no whitespace; the empty Object
\* serializes to "{}" and the empty Array to "[]", and parse("{}") and
\* parse("[]") yield the empty Object and the empty Array.
C25_ContainerSeparators ==
    (pc = "serialized" /\ PlainStrings(tokenize(json_string).val))
        => /\ CountOf(Comma, serialized) = Separators(parsed.val)
           /\ ~HasWhitespace(serialized)
           /\ \A n \in 1..(Len(serialized) - 1) :
                 serialized[n] = Comma =>
                     serialized[n + 1] \notin {SquareClose, CurlyClose}
           /\ json_string = <<CurlyOpen, CurlyClose>>
                 => parsed.val = JObjectV(JObject_new) /\ serialized = json_string
           /\ json_string = <<SquareOpen, SquareClose>>
                 => parsed.val = JArray(<<>>) /\ serialized = json_string

C25_Witness ==
    /\ pc = "serialized"
    /\ json_string = <<SquareOpen, SquareOpen, SquareClose, Comma, Digit1, SquareClose>>
    /\ serialized = json_string

\* C26: two Number values compare equal if and only if their derived numeric
\* values are equal, whatever their spelling: 1e2, 100 and 100.0 are
\* pairwise equal, alone and as the elements of [1e2, 100, 100.0], and
\* Values of different variants are never equal.
C26_NumberEquality ==
    pc = "compared" =>
        /\ (left.val.type = "Number" /\ right.val.type = "Number")
              => (equal <=> F64_eq(get_f64_value(left.val.n), get_f64_value(right.val.n)))
        /\ left.val.type # right.val.type => ~equal
        /\ ({left_text, right_text}
                \subseteq {<<Digit1, LetterE, Digit2>>, Hundred, Hundred \o <<Point, Digit0>>})
              => equal
        /\ left_text = ThreeHundreds
              => \A i, j \in 1..Len(left.val.a) : JValue_eq(left.val.a[i], left.val.a[j])

C26_Witness ==
    /\ pc = "compared"
    /\ left_text = <<Digit1, LetterE, Digit2>>
    /\ right_text = Hundred \o <<Point, Digit0>>
    /\ equal

\* C27: after any sequence of insert and remove calls on JObject::new(),
\* len() is the number of distinct keys stored: insert of a new key adds 1,
\* insert of an existing key adds 0, remove of a present key subtracts 1,
\* remove of an absent key returns None and changes nothing, and len() never
\* goes below 0.
C27_LenCountsKeys ==
    call # None =>
        /\ JObject_len(j_object) = Cardinality(DOMAIN j_object.value)
        /\ JObject_len(j_object) >= 0
        /\ call.op = "insert" =>
              JObject_len(j_object) =
                  JObject_len(old_object)
                      + (IF call.k \in DOMAIN old_object.value THEN 0 ELSE 1)
        /\ (call.op = "remove" /\ call.k \in DOMAIN old_object.value)
              => JObject_len(j_object) = JObject_len(old_object) - 1
        /\ (call.op = "remove" /\ call.k \notin DOMAIN old_object.value)
              => ~returned.some /\ j_object = old_object

C27_Witness ==
    /\ call # None
    /\ calls = MaxCalls
    /\ call.op = "remove"
    /\ call.k \in DOMAIN old_object.value
    /\ JObject_len(old_object) = 1
    /\ JObject_len(j_object) = 0

\* C28: JObject::insert(k, v) returns None when k was absent; when k was
\* present it returns the previous value, stores v under k and leaves len()
\* and the value of every other key unchanged.
C28_InsertReturnsPrevious ==
    (call # None /\ call.op = "insert") =>
        /\ j_object.value[call.k] = call.v
        /\ call.k \notin DOMAIN old_object.value => ~returned.some
        /\ call.k \in DOMAIN old_object.value =>
              /\ returned.some
              /\ returned.old = old_object.value[call.k]
              /\ JObject_len(j_object) = JObject_len(old_object)
              /\ DOMAIN j_object.value = DOMAIN old_object.value
        /\ \A x \in DOMAIN old_object.value \ {call.k} :
              x \in DOMAIN j_object.value /\ j_object.value[x] = old_object.value[x]

C28_Witness ==
    /\ call # None
    /\ call.op = "insert"
    /\ call.k \in DOMAIN old_object.value
    /\ old_object.value[call.k] # call.v
    /\ returned.some
    /\ JObject_len(j_object) = 2

\* C29: JString::new rejects every string that holds a control character,
\* U+0000 to U+001F, with an error that gives the code point of such a
\* character, and accepts every other string, storing it unchanged.
C29_ControlCharactersRejected ==
    pc = "built" =>
        LET controls == {n \in 1..Len(raw) : raw[n] < Space} IN
        IF controls # {}
        THEN /\ IsErr(j_string)
             /\ j_string.err = "The string contains an illegal char ({:#06X})"
             /\ \E n \in controls : j_string.arg = <<raw[n]>>
        ELSE IsOk(j_string) /\ JString_fmt(j_string.val) = raw

(***************************************************************************)
(* The failure of the number recognizer or of the string validator on a    *)
(* literal token, and the tokens the parser hands to them: token n is      *)
(* examined as a value or as a key when the grammar has a value or a key   *)
(* there and the parser, given the tokens before n alone, reads them all   *)
(* and fails only for want of a further token.                             *)
(***************************************************************************)
LiteralResult(tok) == IF tok.t = "Number" THEN from_str(tok.s) ELSE JString_new(tok.s)

RanOut(r) ==
    /\ IsErr(r)
    /\ r.err \in {"No Token Found",
                  "Invalid JSON array! Missing a closing square bracket",
                  "Invalid JSON object! Missing a closing curly bracket",
                  "Invalid JSON object! Missing a colon"}

Examined(toks, n) ==
    /\ \/ /\ PositionOf(toks, n) \in {"value", "arr_first", "arr_value", "obj_value"}
          /\ toks[n].t \in {"Number", "String"}
       \/ /\ PositionOf(toks, n) \in {"obj_first", "obj_key"}
          /\ toks[n].t = "String"
    /\ RanOut(get_jvalue(SubSeq(toks, 1, n - 1), 1))

SameError(r, e) == IsErr(r) /\ r.err = e.err /\ r.arg = e.arg

\* C30: errors are terminal and surfaced verbatim: whenever the tokenizer,
\* the number recognizer or the string validator returns an error during a
\* parse call, parse returns exactly that error and no value, whatever
\* tokens come after it.
C30_ErrorsSurfaceVerbatim ==
    pc = "parsed" =>
        LET lexed == tokenize(json_string) IN
        IF IsErr(lexed) THEN SameError(parsed, lexed)
        ELSE \A n \in 1..Len(lexed.val) :
                (Examined(lexed.val, n) /\ IsErr(LiteralResult(lexed.val[n])))
                    => SameError(parsed, LiteralResult(lexed.val[n]))

C30_Witness ==
    /\ pc = "parsed"
    /\ json_string = <<SquareOpen, Digit1, Comma, Digit0, Digit0, Comma>>
                         \o Quoted(<<VerticalTab>>) \o <<SquareClose>>
    /\ IsErr(parsed)
    /\ parsed.err = "Illegal input! Point was expected at index {}"

\* C31: a decimal point must be followed by at least one digit: for every
\* numeral in which a '.' is followed by the end of the input or by a
\* character that is no digit, from_str returns an error, whether the
\* integer part is "0" or a longer run of digits.
C31_PointNeedsDigit ==
    (pc = "recognized"
        /\ \E n \in 1..Len(s) : s[n] = Point /\ (n = Len(s) \/ ~IsDigit(s[n + 1])))
        => IsErr(number)

\* C32: an exponent marker must be followed by an optional sign and then at
\* least one digit: for every numeral that ends directly after 'e'/'E' or
\* after the exponent sign, from_str returns an error.
C32_ExponentNeedsDigit ==
    (pc = "recognized" /\ Len(s) >= 2
        /\ \/ IsExponentMarker(s[Len(s)])
           \/ IsSign(s[Len(s)]) /\ IsExponentMarker(s[Len(s) - 1]))
        => IsErr(number)

\* C33: a leading '-' must be followed by at least one integer digit:
\* from_str("-") returns an error, and parse("-") and parse("[-]") fail
\* rather than yield a Number.
C33_MinusNeedsDigit ==
    (pc = "parsed" /\ json_string \in {<<Minus>>, <<SquareOpen, Minus, SquareClose>>})
        => IsErr(from_str(<<Minus>>)) /\ ~IsOk(parsed)

\* The value parser, run alone on the tokens of the first p characters.
ParserAlone(str, p) == get_jvalue(tokenize(SubSeq(str, 1, p)).val, 1)

\* A prefix of the text scans, and its tokens already hold an error of the
\* value parser or of the number recognizer that no later token can repair.
EarlierError(str) ==
    \E p \in 1..(Len(str) - 1) :
        /\ IsOk(tokenize(SubSeq(str, 1, p)))
        /\ IsErr(ParserAlone(str, p))
        /\ ~RanOut(ParserAlone(str, p))

\* C34: stage ordering: parse tokenizes the whole text before the value
\* parser examines any token, so for a text that holds a lexical error
\* anywhere parse returns the tokenizer's error, also when a structural or
\* numeral-grammar error occurs at an earlier position of the text, whose
\* error is then not the one returned.
C34_TokenizerErrorFirst ==
    (pc = "parsed" /\ IsErr(tokenize(json_string)))
        => /\ parsed = tokenize(json_string)
           /\ \A p \in 1..(Len(json_string) - 1) :
                (IsOk(tokenize(SubSeq(json_string, 1, p)))
                    /\ IsErr(ParserAlone(json_string, p))
                    /\ ~SameError(ParserAlone(json_string, p), tokenize(json_string)))
                    => ~SameError(parsed, ParserAlone(json_string, p))

C34_Witness ==
    /\ pc = "parsed"
    /\ json_string \in {<<Digit0, Digit0, LetterA>>, <<SquareClose, Comma, LetterA>>}
    /\ EarlierError(json_string)
    /\ IsErr(parsed)
    /\ parsed.err = "Invalid char"

\* C35: for every string value that JString::new accepts, also one that ends
\* in a backslash or holds a backslash directly before a quote, tokenizing
\* its serialization succeeds and yields exactly one String token: no quote
\* of the serializer's output is taken for the closing quote too early, and
\* the closing quote is never taken for an escaped one.
C35_SerializedStringScans ==
    pc = "rescanned" =>
        /\ IsOk(wire_tokens)
        /\ Len(wire_tokens.val) = 1
        /\ wire_tokens.val[1] = TokString(SubSeq(wire, 2, Len(wire) - 1))

\* One iteration of the tokenizer's loop at index i consumes the characters
\* from i up to the index it hands back, at least one and none beyond the
\* end, and looks at no other: run on those characters alone it pushes the
\* same tokens.
ConsumesChars(txt, i) ==
    LET sub == next_token(txt, i) IN
    IsOk(sub) =>
        /\ i < sub.next
        /\ sub.next <= Len(txt) + 1
        /\ next_token(SubSeq(txt, i, sub.next - 1), 1) = Scanned(sub.toks, sub.next - i + 1)

\* The same for a step of the value parser that starts at token p.
ConsumesTokens(r, again, toks, p) ==
    IsOk(r) =>
        /\ p < r.next
        /\ r.next <= Len(toks) + 1
        /\ again = Parsed(r.val, r.next - p + 1)

SinglePass ==
    /\ cursor \in 1..(Len(source_text) + 1)
    /\ token_cursor \in 1..(Len(emitted) + 1)
    /\ \A i \in 1..Len(source_text) : ConsumesChars(source_text, i)
    /\ pc = "scanning" => Len(emitted) < cursor
    /\ pc \in {"tokens_ready", "returned"} =>
        \A p \in 1..Len(emitted) :
            LET rest(r) == SubSeq(emitted, p, r.next - 1) IN
            /\ ConsumesTokens(get_jvalue(emitted, p),
                              get_jvalue(rest(get_jvalue(emitted, p)), 1), emitted, p)
            /\ ConsumesTokens(get_jarray(emitted, p),
                              get_jarray(rest(get_jarray(emitted, p)), 1), emitted, p)
            /\ ConsumesTokens(get_jobject(emitted, p),
                              get_jobject(rest(get_jobject(emitted, p)), 1), emitted, p)
    /\ pc = "returned" => tree = parse(source_text)

\* A step moves a cursor forward or leaves it where it is; the step that
\* pushes tokens moves the character cursor.
Forward ==
    /\ cursor' >= cursor
    /\ token_cursor' >= token_cursor
    /\ emitted' # emitted => cursor' > cursor
    /\ (pc = "scanning" /\ pc' = "scanning") => cursor' > cursor
    /\ (pc = "tokens_ready" /\ IsOk(tree')) => token_cursor' > token_cursor

\* C36: single pass and termination: on every finite input tokenize and the
\* value parser terminate; every iteration of the tokenizer's loop consumes
\* at least one character, every step of get_jvalue, get_jarray and
\* get_jobject consumes at least one token, the cursors only move forward,
\* and no character or token is examined twice.
C36_SinglePassTerminates ==
    /\ []SinglePass
    /\ [][Forward]_vars
    /\ <>(pc = "returned")

C36_Witness ==
    /\ pc = "returned"
    /\ source_text = <<SquareOpen, Digit1, Comma>> \o Quoted(<<LetterA>>) \o <<SquareClose>>
    /\ cursor = Len(source_text) + 1
    /\ Len(emitted) = 5
    /\ token_cursor = 6
    /\ IsOk(tree)

====
